---- MODULE Spec2Model ----
(***************************************************************************)
(* Access control, menu composition and lifecycle of the NIRA backend      *)
(* (Node.js + Express + MongoDB).  The store collections are the state;    *)
(* every service method and middleware is one action or one operator.      *)
(***************************************************************************)
EXTENDS Integers, Sequences, FiniteSets, TLC

(* ------------------------------------------------------------------ *)
(* Bounds of the model                                                  *)
(* ------------------------------------------------------------------ *)
NumCodes == 2
NumUsers == 1
NumAccounts == 2
NumRequests == 1
NumMenus == 4
MaxOrder == 1
NumCitizens == 2
NumNationalIds == 1
NumOps == 2
NumActors == 2
MaxTime == 2
MaxLogs == 2

(* ------------------------------------------------------------------ *)
(* Values of the store                                                  *)
(* ------------------------------------------------------------------ *)
NULL == "null"
\* deletedAt: null (schema default)
NoDate == 0
\* parentId: null (schema default)
NoParent == 0

\* the permission documents of the seeder; Permission _id i carries CodeList[i]
CodeList ==
  << "VIEW_CITIZEN", "CREATE_CITIZEN", "MANAGE_USERS", "UPDATE_CITIZEN",
     "DELETE_CITIZEN", "VIEW_DASHBOARD", "VIEW_REPORTS", "MANAGE_NOTICES",
     "VIEW_ACTIVITIES" >>
PermIds == 1..NumCodes
Codes == {CodeList[p] : p \in PermIds}

RoleNames == {"ADMIN", "OFFICER", "VIEWER"}
\* _id of the role document of each name
RoleIdOf(name) == "r_" \o name
RoleIds == {RoleIdOf(n) : n \in RoleNames}
\* a role reference whose document is no longer in the roles collection
RemovedRoleId == "r_removed"
RoleRefs == RoleIds \cup {RemovedRoleId}

UserStatuses == {"ACTIVE", "DISABLED"}
UserIds == 1..NumUsers
\* _ids of user documents where accounts of equal username are told apart
AccountIds == 1..NumAccounts
\* data.username of a createUser body, trimmed
Usernames == {"admin", "officer1"}
ReqIds == 1..NumRequests
MenuIds == 1..NumMenus

\* status enum of the Citizen and StatusChangeLog schemas
CitizenStatuses == {"ACTIVE", "DECEASED"}
\* _ids of citizen documents, in the order they are inserted
CitizenIds == 1..NumCitizens
\* the 10-digit nationalId strings generateNationalId can produce
NationalIds == 1..NumNationalIds
\* service calls in flight
OpIds == 1..NumOps
\* req.userId of the authenticated caller of a citizen route
ActorIds == 1..NumActors
EntityTypes == {"User", "Citizen"}

VARIABLES
  users,       \* users collection: _id -> [username, roleId, role, status, deletedAt, updatedAt]
  userSeq,     \* number of user _ids handed out so far (ObjectIds are never reused)
  roles,       \* roles collection: _id -> [name, permissions (set of Permission _ids)]
  tokens,      \* users that hold an issued (signed, unexpired) token pair
  now,         \* the clock read by new Date()
  req,         \* requests in flight: position in the middleware chain and req.user
  resolved,    \* the last return of RBACService.getUserPermissions
  menus,       \* menus collection: _id -> [parentId, orderIndex, permissionCode]
  menuResult,  \* the last return of RBACService.getUserMenus
  citizens,    \* citizens collection: _id -> [nationalId, status, deletedAt, updatedAt]
  citizenSeq,  \* number of citizen _ids handed out so far
  purgedIds,   \* nationalIds whose citizen row was removed by deleteCitizenPermanent
  logs,        \* status_change_logs collection, in insertion order
  ops,         \* service calls in flight: position between their awaits
  listing      \* the last listing request: the query it sent and its response

vars == << users, userSeq, roles, tokens, now, req, resolved, menus, menuResult, listing,
           citizens, citizenSeq, purgedIds, logs, ops, listing >>

\* the state of the citizen registry, of the service calls in flight and of the
\* last listing request
lifeVars == << citizens, citizenSeq, purgedIds, logs, ops, listing >>

storeVars == << users, userSeq, roles, tokens, now >>


(* ------------------------------------------------------------------ *)
(* Seeder: roles, role permissions, default users                      *)
(* ------------------------------------------------------------------ *)
OfficerSeedCodes ==
  {"VIEW_CITIZEN", "CREATE_CITIZEN", "UPDATE_CITIZEN", "VIEW_DASHBOARD", "VIEW_REPORTS"}
\* variant: the VIEWER role is seeded with the filter of the OFFICER role
ViewerSeedCodes_officer == OfficerSeedCodes

ViewerSeedCodes == {"VIEW_CITIZEN", "VIEW_DASHBOARD"}

\* createdPermissions.filter(p => [...].includes(p.code)).map(p => p._id)
SeedPermissions(name) ==
  CASE name = "ADMIN" -> PermIds
    [] name = "OFFICER" -> {p \in PermIds : CodeList[p] \in OfficerSeedCodes}
    [] OTHER -> {p \in PermIds : CodeList[p] \in ViewerSeedCodes}

SeedRoles ==
  [r \in RoleIds |->
     LET n == CHOOSE x \in RoleNames : RoleIdOf(x) = r
     IN  [name |-> n, permissions |-> SeedPermissions(n)]]

\* the roles collection as the seeder leaves it, over all nine permissions
SeederRoles ==
  [r \in RoleIds |->
     LET n == CHOOSE x \in RoleNames : RoleIdOf(x) = r
         codes == CASE n = "ADMIN" -> {CodeList[p] : p \in DOMAIN CodeList}
                    [] n = "OFFICER" -> OfficerSeedCodes
                    [] OTHER -> ViewerSeedCodes
     IN  [name |-> n, permissions |-> {p \in DOMAIN CodeList : CodeList[p] \in codes}]]

SeedAdmin ==
  [username |-> "admin", roleId |-> RoleIdOf("ADMIN"), role |-> "ADMIN", status |-> "ACTIVE",
   deletedAt |-> NoDate, updatedAt |-> 1]
SeedOfficer ==
  [username |-> "officer1", roleId |-> RoleIdOf("OFFICER"), role |-> "OFFICER", status |-> "ACTIVE",
   deletedAt |-> NoDate, updatedAt |-> 1]
\* a user created with the VIEWER role
ViewerUser ==
  [username |-> "officer1", roleId |-> RoleIdOf("VIEWER"), role |-> "VIEWER",
   status |-> "ACTIVE", deletedAt |-> NoDate, updatedAt |-> 1]
\* a user whose role document has since been removed from the roles collection
OrphanUser ==
  [username |-> "admin", roleId |-> RemovedRoleId, role |-> "VIEWER", status |-> "ACTIVE",
   deletedAt |-> NoDate, updatedAt |-> 1]

(* ------------------------------------------------------------------ *)
(* Store reads                                                          *)
(* ------------------------------------------------------------------ *)
UserExists(u) == u \in DOMAIN users
RoleExists(r) == r \in DOMAIN roles

\* role.permissions.map(p => p.code) on a role populated with its permissions
RoleCodes(r) == {CodeList[p] : p \in roles[r].permissions}

\* Role.findOne({ name }): the _id of the role of that name, NULL if none
FindRoleByName(name) ==
  IF \E r \in DOMAIN roles : roles[r].name = name
  THEN CHOOSE r \in DOMAIN roles : roles[r].name = name
  ELSE NULL

\* document.save() with the timestamps option: a document with a modified path
\* is written with updatedAt set to the current time; one without is not written
Saved(stored, doc) ==
  IF doc = stored THEN stored ELSE [doc EXCEPT !.updatedAt = now]

(* ------------------------------------------------------------------ *)
(* UserService                                                          *)
(* ------------------------------------------------------------------ *)
\* User.findOne({ username, deletedAt: null }): a non-deleted user has the name
UsernameTaken(username) ==
  \E u \in DOMAIN users : users[u].username = username /\ users[u].deletedAt = NoDate

\* variant: the schema declares no unique index on username
UsernameIndex_none(username) == TRUE

\* username: { unique: true }: the index admits an insert when no row of the
\* collection, soft-deleted or not, carries the name
UsernameIndex(username) ==
  \A u \in DOMAIN users : users[u].username # username

\* createUser: the role must exist and no non-deleted user has the username;
\* status defaults to ACTIVE.  user.save() inserts the document under a fresh
\* _id, or rejects with a duplicate key error.
CreateUser(username, roleId, status) ==
  /\ RoleExists(roleId)
  /\ ~UsernameTaken(username)
  /\ UsernameIndex(username)
  /\ users' = users @@ ((userSeq + 1) :>
        [username |-> username, roleId |-> roleId, role |-> roles[roleId].name,
         status |-> status, deletedAt |-> NoDate, updatedAt |-> now])
  /\ userSeq' = userSeq + 1
  /\ UNCHANGED << roles, tokens, now >>

LegacyRoleIds == {"1", "2", "3"}
LegacyRoleName(id) ==
  CASE id = "1" -> "ADMIN" [] id = "2" -> "OFFICER" [] OTHER -> "VIEWER"

\* the role lookup of updateUser: by _id, then by legacy id, then by name
UpdateUserRole(roleId, roleName) ==
  LET byId == IF roleId # NULL /\ RoleExists(roleId) THEN roleId ELSE NULL
      byLegacy ==
        IF byId = NULL /\ roleId \in LegacyRoleIds
        THEN FindRoleByName(LegacyRoleName(roleId))
        ELSE byId
  IN  IF byLegacy = NULL /\ roleName # NULL
      THEN FindRoleByName(roleName)
      ELSE byLegacy

\* variant: the check on the current role is missing
updateUser_noGuard(u, roleId, roleName, status) ==
  LET wantsRole == roleId # NULL \/ roleName # NULL
      role == UpdateUserRole(roleId, roleName)
  IN  IF ~UserExists(u) THEN [error |-> "User not found"]
      ELSE IF users[u].deletedAt # NoDate THEN [error |-> "User not found"]
      ELSE IF wantsRole /\ role = NULL THEN [error |-> "Invalid role ID or name"]
      ELSE LET r1 == IF wantsRole
                     THEN [users[u] EXCEPT !.roleId = role, !.role = roles[role].name]
                     ELSE users[u]
               r2 == IF status # NULL THEN [r1 EXCEPT !.status = status] ELSE r1
           IN  [error |-> NULL, doc |-> r2]

\* updateUser(userId, { role_id, roleName, status }) up to its save: the error
\* it throws, or the document it is about to save
updateUser(u, roleId, roleName, status) ==
  LET wantsRole == roleId # NULL \/ roleName # NULL
      role == UpdateUserRole(roleId, roleName)
  IN  IF ~UserExists(u) THEN [error |-> "User not found"]
      ELSE IF users[u].deletedAt # NoDate THEN [error |-> "User not found"]
      ELSE IF wantsRole /\ role = NULL THEN [error |-> "Invalid role ID or name"]
      ELSE IF wantsRole /\ users[u].role = "ADMIN" /\ roles[role].name # "ADMIN"
      THEN [error |-> "Cannot change role of an Admin user"]
      ELSE LET r1 == IF wantsRole
                     THEN [users[u] EXCEPT !.roleId = role, !.role = roles[role].name]
                     ELSE users[u]
               r2 == IF status # NULL THEN [r1 EXCEPT !.status = status] ELSE r1
           IN  [error |-> NULL, doc |-> r2]

\* a call of updateUser that returns: await user.save().  A call that throws
\* has written nothing.
UpdateUser(u, roleId, roleName, status) ==
  /\ LET call == updateUser(u, roleId, roleName, status)
     IN  /\ call.error = NULL
         /\ users' = [users EXCEPT ![u] = Saved(users[u], call.doc)]
  /\ UNCHANGED << userSeq, roles, tokens, now >>

\* changeUserStatus
ChangeUserStatus(u, status) ==
  /\ UserExists(u)
  /\ users[u].deletedAt = NoDate
  /\ users' = [users EXCEPT ![u] = Saved(users[u], [users[u] EXCEPT !.status = status])]
  /\ UNCHANGED << userSeq, roles, tokens, now >>

\* deleteUser (soft delete)
DeleteUser(u) ==
  /\ UserExists(u)
  /\ users[u].deletedAt = NoDate
  /\ users' = [users EXCEPT ![u] = Saved(users[u], [users[u] EXCEPT !.deletedAt = now])]
  /\ UNCHANGED << userSeq, roles, tokens, now >>

\* restoreUser
RestoreUser(u) ==
  /\ UserExists(u)
  /\ users' = [users EXCEPT ![u] = Saved(users[u], [users[u] EXCEPT !.deletedAt = NoDate])]
  /\ UNCHANGED << userSeq, roles, tokens, now >>

\* deleteUserPermanent
DeleteUserPermanent(u) ==
  /\ UserExists(u)
  /\ users' = [x \in DOMAIN users \ {u} |-> users[x]]
  /\ UNCHANGED << userSeq, roles, tokens, now >>

\* role.permissions = [...]; await role.save()
SetRolePermissions(r, perms) ==
  /\ RoleExists(r)
  /\ roles' = [roles EXCEPT ![r].permissions = perms]
  /\ UNCHANGED << users, userSeq, tokens, now >>

\* POST /api/auth/login with the right password: a token pair is issued
Login(u) ==
  /\ UserExists(u)
  /\ users[u].deletedAt = NoDate
  /\ users[u].status = "ACTIVE"
  /\ tokens' = tokens \cup {u}
  /\ UNCHANGED << users, userSeq, roles, now >>

(* ------------------------------------------------------------------ *)
(* Soft-delete lifecycle of users and citizens (UserService,           *)
(* CitizenService).  A service call is a read, an await, then a write.  *)
(* ------------------------------------------------------------------ *)
ActiveCitizen ==
  [nationalId |-> 1, status |-> "ACTIVE", deletedAt |-> NoDate, updatedAt |-> 1]
DeceasedCitizen ==
  [nationalId |-> 1, status |-> "DECEASED", deletedAt |-> NoDate, updatedAt |-> 1]

\* the StatusChangeLog rows a registry holds when its citizens were created
\* ACTIVE (createCitizen) and those now DECEASED were changed once, by caller 1
RECURSIVE PastLogs(_, _)
PastLogs(coll, S) ==
  IF S = {} THEN << >>
  ELSE LET c == CHOOSE x \in S : \A y \in S : x <= y
           row == [nationalId |-> coll[c].nationalId, oldStatus |-> "ACTIVE",
                   newStatus |-> "DECEASED", changedBy |-> 1]
       IN  (IF coll[c].status = "DECEASED" THEN << row >> ELSE << >>)
             \o PastLogs(coll, S \ {c})

\* a call slot with no call in it
IdleOp ==
  [pc |-> "idle", kind |-> NULL, type |-> NULL, key |-> 0, id |-> 0,
   dirty |-> FALSE, old |-> NULL, status |-> NULL, userId |-> 0, logged |-> FALSE]
\* deleteUser/deleteCitizen, restoreUser/restoreCitizen, deleteUserPermanent/deleteCitizenPermanent
OpKinds == {"delete", "restore", "purge"}
\* the call returned, threw '... not found', or threw another error
OpResults == {"ok", "notfound", "error"}

Collection(type) == IF type = "User" THEN users ELSE citizens
\* req.params.id of the user routes, req.params.nationalId of the citizen routes
Keys(type) == IF type = "User" THEN UserIds ELSE NationalIds

\* User.findById(key) / Citizen.findOne({ nationalId: key }): the _id of the
\* document found, 0 when there is none
FindOne(type, key) ==
  IF type = "User"
  THEN IF key \in DOMAIN users THEN key ELSE 0
  ELSE IF \E c \in DOMAIN citizens : citizens[c].nationalId = key
       THEN CHOOSE c \in DOMAIN citizens : citizens[c].nationalId = key
       ELSE 0

\* variant: the soft delete does not look at deletedAt
Lookup_anyState(kind, type, key) == FindOne(type, key)

\* the document a call goes on with, 0 when it throws 'not found':
\* deleteUser (!user || user.deletedAt) and deleteCitizen ({ deletedAt: null })
\* skip soft-deleted documents, restore and permanent delete do not
Lookup(kind, type, key) ==
  LET id == FindOne(type, key)
  IN  IF id = 0 THEN 0
      ELSE IF kind = "delete" /\ Collection(type)[id].deletedAt # NoDate THEN 0
      ELSE id

\* user.deletedAt = new Date()
SoftDeleted(doc) == [doc EXCEPT !.deletedAt = now]

\* variant: restoring also resets the status field
Restored_reset(doc) == [doc EXCEPT !.deletedAt = NoDate, !.status = "ACTIVE"]

\* user.deletedAt = null
Restored(doc) == [doc EXCEPT !.deletedAt = NoDate]

\* updateOne({ _id }, { $set: ... }) issued by save(), on either collection
WriteDoc(type, id, doc) ==
  IF type = "User"
  THEN users' = [users EXCEPT ![id] = doc] /\ UNCHANGED citizens
  ELSE citizens' = [citizens EXCEPT ![id] = doc] /\ UNCHANGED users

\* the read of a lifecycle call: findById / findOne, then the not-found check.
\* The in-memory assignment of deletedAt marks the document modified unless it
\* already holds the assigned value.
FindEntity(o, kind, type, key) ==
  /\ ops[o].pc = "idle"
  /\ \A p \in OpIds : p < o => ops[p].pc # "idle"
  /\ LET id == Lookup(kind, type, key)
         call == [IdleOp EXCEPT !.kind = kind, !.type = type, !.key = key]
     IN  ops' = [ops EXCEPT ![o] =
                   IF id = 0
                   THEN [call EXCEPT !.pc = "notfound"]
                   ELSE [call EXCEPT
                           !.pc = "found",
                           !.id = id,
                           !.dirty = (kind = "delete"
                                      \/ (kind = "restore"
                                          /\ Collection(type)[id].deletedAt # NoDate))]]
  /\ UNCHANGED << users, userSeq, roles, tokens, now, req, resolved, menus, menuResult, listing,
                  citizens, citizenSeq, purgedIds, logs >>

\* await user.save() of a soft delete or a restore: only the modified path
\* (deletedAt) and updatedAt are written; an unmodified document is not written;
\* a document removed since the read makes save() throw
SaveEntity(o) ==
  /\ ops[o].pc = "found"
  /\ ops[o].kind \in {"delete", "restore"}
  /\ LET op == ops[o]
         coll == Collection(op.type)
     IN  IF ~op.dirty
         THEN /\ ops' = [ops EXCEPT ![o].pc = "ok"]
              /\ UNCHANGED << users, citizens >>
         ELSE IF op.id \notin DOMAIN coll
         THEN /\ ops' = [ops EXCEPT ![o].pc = "error"]
              /\ UNCHANGED << users, citizens >>
         ELSE /\ ops' = [ops EXCEPT ![o].pc = "ok"]
              /\ WriteDoc(op.type, op.id,
                   [(IF op.kind = "delete" THEN SoftDeleted(coll[op.id])
                                           ELSE Restored(coll[op.id]))
                      EXCEPT !.updatedAt = now])
  /\ UNCHANGED << userSeq, roles, tokens, now, req, resolved, menus, menuResult, listing,
                  citizenSeq, purgedIds, logs >>

\* variant: the permanent delete also removes the citizen's StatusChangeLog rows
DeleteOne_cascade(o) ==
  /\ ops[o].pc = "found"
  /\ ops[o].kind = "purge"
  /\ LET op == ops[o]
     IN  IF op.type = "User"
         THEN /\ users' = [x \in DOMAIN users \ {op.id} |-> users[x]]
              /\ UNCHANGED << citizens, purgedIds, logs >>
         ELSE /\ citizens' = [x \in DOMAIN citizens \ {op.id} |-> citizens[x]]
              /\ purgedIds' = IF op.id \in DOMAIN citizens
                              THEN purgedIds \cup {citizens[op.id].nationalId}
                              ELSE purgedIds
              /\ logs' = SelectSeq(logs, LAMBDA row : row.nationalId # op.key)
              /\ UNCHANGED users
  /\ ops' = [ops EXCEPT ![o].pc = "ok"]
  /\ UNCHANGED << userSeq, roles, tokens, now, req, resolved, menus, menuResult, listing,
                  citizenSeq >>

\* await User.deleteOne({ _id }) / Citizen.deleteOne({ _id: citizen._id }); return true
DeleteOne(o) ==
  /\ ops[o].pc = "found"
  /\ ops[o].kind = "purge"
  /\ LET op == ops[o]
     IN  IF op.type = "User"
         THEN /\ users' = [x \in DOMAIN users \ {op.id} |-> users[x]]
              /\ UNCHANGED << citizens, purgedIds >>
         ELSE /\ citizens' = [x \in DOMAIN citizens \ {op.id} |-> citizens[x]]
              /\ purgedIds' = IF op.id \in DOMAIN citizens
                              THEN purgedIds \cup {citizens[op.id].nationalId}
                              ELSE purgedIds
              /\ UNCHANGED users
  /\ ops' = [ops EXCEPT ![o].pc = "ok"]
  /\ UNCHANGED << userSeq, roles, tokens, now, req, resolved, menus, menuResult, listing,
                  citizenSeq, logs >>

\* the route handler sends the response of a finished call
ReturnOp(o) ==
  /\ ops[o].pc \in OpResults
  /\ ops' = [ops EXCEPT ![o] = IdleOp]
  /\ UNCHANGED << users, userSeq, roles, tokens, now, req, resolved, menus, menuResult, listing,
                  citizens, citizenSeq, purgedIds, logs >>

\* generateNationalId: a random 10-digit id that no citizen document carries
\* (the sequential fallback also returns an id no document carries)
generateNationalId ==
  {n \in NationalIds : \A c \in DOMAIN citizens : citizens[c].nationalId # n}

\* createCitizen: status ACTIVE, deletedAt null (schema default)
CreateCitizen(nationalId) ==
  /\ citizenSeq < NumCitizens
  /\ nationalId \in generateNationalId
  /\ citizens' = citizens @@ ((citizenSeq + 1) :>
        [nationalId |-> nationalId, status |-> "ACTIVE",
         deletedAt |-> NoDate, updatedAt |-> now])
  /\ citizenSeq' = citizenSeq + 1
  /\ UNCHANGED << users, userSeq, roles, tokens, now, req, resolved, menus, menuResult, listing,
                  purgedIds, logs, ops >>

\* createCitizen, first await: generateNationalId() draws a candidate and returns
\* it when Citizen.findOne({ nationalId }) finds no row (it draws again otherwise)
GenerateId(o, candidate) ==
  /\ ops[o].pc = "idle"
  /\ \A p \in OpIds : p < o => ops[p].pc # "idle"
  /\ candidate \in generateNationalId
  /\ ops' = [ops EXCEPT ![o] = [IdleOp EXCEPT !.pc = "check", !.kind = "create",
                                               !.type = "Citizen", !.key = candidate]]
  /\ UNCHANGED << users, userSeq, roles, tokens, now, req, resolved, menus, menuResult, listing,
                  citizens, citizenSeq, purgedIds, logs >>

\* createCitizen, second await: const exists = await Citizen.findOne({ nationalId });
\* if (exists) throw 'National ID collision'; otherwise the document is built
CheckExists(o) ==
  /\ ops[o].pc = "check"
  /\ ops' = [ops EXCEPT ![o] =
                IF FindOne("Citizen", ops[o].key) # 0
                THEN [ops[o] EXCEPT !.pc = "error"]
                ELSE [ops[o] EXCEPT !.pc = "insert", !.dirty = TRUE]]
  /\ UNCHANGED << users, userSeq, roles, tokens, now, req, resolved, menus, menuResult, listing,
                  citizens, citizenSeq, purgedIds, logs >>

\* variant: the schema declares no unique index on nationalId
UniqueIndex_none(nationalId) == TRUE

\* nationalId: { unique: true }: the index admits an insert when no row of the
\* collection, soft-deleted or not, carries the value
UniqueIndex(nationalId) ==
  \A c \in DOMAIN citizens : citizens[c].nationalId # nationalId

\* createCitizen, third await: citizen.save() inserts the row with status ACTIVE
\* and deletedAt null, or rejects with a duplicate key error
InsertCitizen(o) ==
  /\ ops[o].pc = "insert"
  /\ IF UniqueIndex(ops[o].key)
     THEN /\ citizenSeq < NumCitizens
          /\ citizens' = citizens @@ ((citizenSeq + 1) :>
                [nationalId |-> ops[o].key, status |-> "ACTIVE",
                 deletedAt |-> NoDate, updatedAt |-> now])
          /\ citizenSeq' = citizenSeq + 1
          /\ ops' = [ops EXCEPT ![o].pc = "ok", ![o].id = citizenSeq + 1]
     ELSE /\ ops' = [ops EXCEPT ![o].pc = "error"]
          /\ UNCHANGED << citizens, citizenSeq >>
  /\ UNCHANGED << users, userSeq, roles, tokens, now, req, resolved, menus, menuResult, listing,
                  purgedIds, logs >>

\* time passes between two reads of new Date()
Tick ==
  /\ now < MaxTime
  /\ now' = now + 1
  /\ UNCHANGED << users, userSeq, roles, tokens, req, resolved, menus, menuResult, listing,
                  citizens, citizenSeq, purgedIds, logs, ops >>

\* getUserById / getCitizenByNationalId: the _id returned, 0 for null
GetById(type, key) ==
  LET id == FindOne(type, key)
  IN  IF id = 0 \/ Collection(type)[id].deletedAt # NoDate THEN 0 ELSE id

(* ------------------------------------------------------------------ *)
(* Paginated listings                                                   *)
(* ------------------------------------------------------------------ *)
\* variant: the trash query carries no filter
TrashFilter_all(doc) == TRUE

\* { deletedAt: { $ne: null } }
TrashFilter(doc) == doc.deletedAt # NoDate

\* { deletedAt: null }
ActiveFilter(doc) == doc.deletedAt = NoDate

\* .sort({ createdAt: -1 }): _ids are handed out in creation order, so the
\* newest document is the one with the largest _id
RECURSIVE NewestFirst(_)
NewestFirst(S) ==
  IF S = {} THEN << >>
  ELSE LET x == CHOOSE y \in S : \A z \in S : z <= y
       IN  << x >> \o NewestFirst(S \ {x})

\* .sort({ deletedAt: -1 }) over the documents of coll
RECURSIVE LastDeletedFirst(_, _)
LastDeletedFirst(coll, S) ==
  IF S = {} THEN << >>
  ELSE LET x == CHOOSE y \in S : \A z \in S : coll[z].deletedAt <= coll[y].deletedAt
       IN  << x >> \o LastDeletedFirst(coll, S \ {x})

\* .skip((page - 1) * limit).limit(limit) and the pagination block
Paginate(sorted, page, limit) ==
  LET skip == (page - 1) * limit
      last == IF skip + limit < Len(sorted) THEN skip + limit ELSE Len(sorted)
  IN  [data |-> SubSeq(sorted, skip + 1, last),
       total |-> Len(sorted),
       pages |-> (Len(sorted) + limit - 1) \div limit]

\* listUsers / listCitizens
listActive(type, page, limit) ==
  LET coll == Collection(type)
  IN  Paginate(NewestFirst({id \in DOMAIN coll : ActiveFilter(coll[id])}), page, limit)

\* listTrash of either service
listTrash(type, page, limit) ==
  LET coll == Collection(type)
  IN  Paginate(LastDeletedFirst(coll, {id \in DOMAIN coll : TrashFilter(coll[id])}),
               page, limit)

\* req.query.page and req.query.limit: absent (NULL) or the string in the URL
PageInputs == {NULL, "1", "2", "0", "-1", "abc"}
LimitInputs == {NULL, "1", "100", "0", "-1", "101", "1000"}

\* parseInt(string): the integer the string starts with, NaN when there is none
\* (parseInt(undefined) is NaN)
parseInt(str) ==
  CASE str = "1" -> [nan |-> FALSE, value |-> 1]
    [] str = "2" -> [nan |-> FALSE, value |-> 2]
    [] str = "0" -> [nan |-> FALSE, value |-> 0]
    [] str = "-1" -> [nan |-> FALSE, value |-> -1]
    [] str = "100" -> [nan |-> FALSE, value |-> 100]
    [] str = "101" -> [nan |-> FALSE, value |-> 101]
    [] str = "1000" -> [nan |-> FALSE, value |-> 1000]
    [] OTHER -> [nan |-> TRUE, value |-> 0]

\* parseInt(x) || default: NaN and 0 are falsy, every other number is kept.
\* (The validator chain of GET /api/citizens declares bounds, but the handler
\* never reads the validation result; the other listing routes declare none.)
OrDefault(parsed, default) ==
  IF parsed.nan \/ parsed.value = 0 THEN default ELSE parsed.value

NoListing ==
  [status |-> "none", type |-> NULL, trash |-> FALSE, page |-> 1, limit |-> 50,
   skip |-> 0, items |-> 0, total |-> 0]

\* .skip(skip).limit(limit) on the sorted matches: the store rejects a negative
\* skip; the driver sends a negative limit as its absolute value
Fetched(sorted, skip, limit) ==
  LET n == IF limit < 0 THEN -limit ELSE limit
      last == IF skip + n < Len(sorted) THEN skip + n ELSE Len(sorted)
  IN  SubSeq(sorted, skip + 1, last)

\* GET /api/users, /api/users/trash, /api/citizens, /api/citizens/trash with the
\* query string ?page=..&limit=..: the route handler parses the two
\* parameters, the service computes skip and sends the find and the count
ListRequest(type, trash, pageStr, limitStr) ==
  /\ LET page == OrDefault(parseInt(pageStr), 1)
         limit == OrDefault(parseInt(limitStr), 50)
         skip == (page - 1) * limit
         coll == Collection(type)
         sorted == IF trash
                   THEN LastDeletedFirst(coll, {id \in DOMAIN coll : TrashFilter(coll[id])})
                   ELSE NewestFirst({id \in DOMAIN coll : ActiveFilter(coll[id])})
     IN  listing' =
           [type |-> type, trash |-> trash, page |-> page, limit |-> limit, skip |-> skip,
            status |-> IF skip < 0 THEN "r500" ELSE "r200",
            items |-> IF skip < 0 THEN 0 ELSE Len(Fetched(sorted, skip, limit)),
            total |-> IF skip < 0 THEN 0 ELSE Len(sorted)]
  /\ UNCHANGED << users, userSeq, roles, tokens, now, req, resolved, menus, menuResult,
                  citizens, citizenSeq, purgedIds, logs, ops >>

(* ------------------------------------------------------------------ *)
(* CitizenService.updateCitizen and the StatusChangeLog                 *)
(* ------------------------------------------------------------------ *)
\* data.status of the request body; NULL when the body has no status
StatusInputs == {NULL, "ACTIVE", "DECEASED", "deceased", "MISSING"}

\* String.prototype.toUpperCase on the status strings above
toUpperCase(s) ==
  CASE s = "active" -> "ACTIVE"
    [] s = "deceased" -> "DECEASED"
    [] s = "missing" -> "MISSING"
    [] OTHER -> s

\* variant: the row is written whenever the body carries a status
AfterAssign_always(oldStatus, newStatus) ==
  IF newStatus # NULL THEN "log" ELSE "save"

\* if (data.status) { ...; if (oldStatus !== citizen.status) await StatusChangeLog.create }
\* the next await of the call: the log insert, or directly citizen.save()
AfterAssign(oldStatus, newStatus) ==
  IF newStatus # NULL /\ oldStatus # newStatus THEN "log" ELSE "save"

\* variant: a failed insert is caught and the call goes on to save
AfterCreate_swallow(created) == "save"

\* await StatusChangeLog.create(...): a rejection propagates out of updateCitizen
AfterCreate(created) == IF created THEN "save" ELSE "error"

\* the read of updateCitizen: Citizen.findOne({ nationalId, deletedAt: null }),
\* then the in-memory assignments.  Only the status field is part of the state.
FindForUpdate(o, key, status, userId) ==
  /\ ops[o].pc = "idle"
  /\ \A p \in OpIds : p < o => ops[p].pc # "idle"
  /\ LET id == GetById("Citizen", key)
         call == [IdleOp EXCEPT !.kind = "update", !.type = "Citizen", !.key = key,
                                !.userId = userId]
         newStatus == IF status = NULL THEN NULL ELSE toUpperCase(status)
     IN  ops' = [ops EXCEPT ![o] =
                   IF id = 0
                   THEN [call EXCEPT !.pc = "notfound"]
                   ELSE [call EXCEPT
                           !.pc = AfterAssign(citizens[id].status, newStatus),
                           !.id = id,
                           !.old = citizens[id].status,
                           !.status = newStatus,
                           !.dirty = (newStatus # NULL /\ newStatus # citizens[id].status)]]
  /\ UNCHANGED << users, userSeq, roles, tokens, now, req, resolved, menus, menuResult, listing,
                  citizens, citizenSeq, purgedIds, logs >>

\* the row StatusChangeLog.create is called with
LogRow(op) ==
  [nationalId |-> op.key, oldStatus |-> op.old, newStatus |-> op.status,
   changedBy |-> op.userId]

\* await StatusChangeLog.create(row): schema validation (both statuses in the
\* enum), then the insert, which may fail in the store
CreateLog(o, fails) ==
  /\ ops[o].pc = "log"
  /\ LET row == LogRow(ops[o])
         created == /\ ~fails
                    /\ row.oldStatus \in CitizenStatuses
                    /\ row.newStatus \in CitizenStatuses
     IN  /\ created => Len(logs) < MaxLogs
         /\ logs' = IF created THEN Append(logs, row) ELSE logs
         /\ ops' = [ops EXCEPT ![o].pc = AfterCreate(created),
                               ![o].logged = created]
  /\ UNCHANGED << users, userSeq, roles, tokens, now, req, resolved, menus, menuResult, listing,
                  citizens, citizenSeq, purgedIds >>

\* await citizen.save() of updateCitizen: validation (status in the enum), then
\* the modified path is written; the write may fail in the store
SaveUpdate(o, fails) ==
  /\ ops[o].pc = "save"
  /\ LET op == ops[o]
     IN  IF ~op.dirty
         THEN /\ ops' = [ops EXCEPT ![o].pc = "ok"]
              /\ UNCHANGED citizens
         ELSE IF fails \/ op.status \notin CitizenStatuses \/ op.id \notin DOMAIN citizens
         THEN /\ ops' = [ops EXCEPT ![o].pc = "error"]
              /\ UNCHANGED citizens
         ELSE /\ ops' = [ops EXCEPT ![o].pc = "ok"]
              /\ citizens' = [citizens EXCEPT ![op.id].status = op.status,
                                              ![op.id].updatedAt = now]
  /\ UNCHANGED << users, userSeq, roles, tokens, now, req, resolved, menus, menuResult, listing,
                  citizenSeq, purgedIds, logs >>

(* ------------------------------------------------------------------ *)
(* RBACService.getUserPermissions                                       *)
(* ------------------------------------------------------------------ *)
\* variant: the codes come from the assignment made at provisioning time, not
\* from the role's current permission list
getUserPermissions_stale(userId, dbFails) ==
  IF dbFails
  THEN [permissions |-> {}, threw |-> FALSE, logged |-> TRUE]
  ELSE IF ~UserExists(userId) \/ ~RoleExists(users[userId].roleId)
  THEN [permissions |-> {}, threw |-> FALSE, logged |-> FALSE]
  ELSE [permissions |-> {CodeList[p] : p \in SeedPermissions(roles[users[userId].roleId].name)},
        threw |-> FALSE, logged |-> FALSE]

\* variant: no try/catch around the lookups
getUserPermissions_nocatch(userId, dbFails) ==
  IF dbFails
  THEN [permissions |-> {}, threw |-> TRUE, logged |-> FALSE]
  ELSE IF ~UserExists(userId)
  THEN [permissions |-> {}, threw |-> FALSE, logged |-> FALSE]
  ELSE IF ~RoleExists(users[userId].roleId)
  THEN [permissions |-> {}, threw |-> TRUE, logged |-> FALSE]
  ELSE [permissions |-> RoleCodes(users[userId].roleId), threw |-> FALSE, logged |-> FALSE]

\* the returned array (as the set of its codes), whether the call threw, and
\* whether the catch block logged an error
getUserPermissions(userId, dbFails) ==
  IF dbFails
  THEN [permissions |-> {}, threw |-> FALSE, logged |-> TRUE]
  ELSE IF ~UserExists(userId) \/ ~RoleExists(users[userId].roleId)
  THEN [permissions |-> {}, threw |-> FALSE, logged |-> FALSE]
  ELSE [permissions |-> RoleCodes(users[userId].roleId), threw |-> FALSE, logged |-> FALSE]

GetUserPermissions(u, dbFails) ==
  /\ resolved' = [userId |-> u] @@ getUserPermissions(u, dbFails)
  /\ UNCHANGED storeVars

(* ------------------------------------------------------------------ *)
(* RBACService.getUserMenus and buildMenuTree                           *)
(* ------------------------------------------------------------------ *)
Range(s) == {s[i] : i \in DOMAIN s}

\* variant: the permission filter is left out of the query
MenuFilter_all(permissions) == DOMAIN menus

\* { $or: [ { permissionCode: { $in: permissions } }, { permissionCode: null } ] }
MenuFilter(permissions) ==
  {m \in DOMAIN menus :
     menus[m].permissionCode = NULL \/ menus[m].permissionCode \in permissions}

\* variant: the query carries no sort, the documents come in any order
RECURSIVE MenuFind_unsorted(_)
MenuFind_unsorted(S) ==
  IF S = {} THEN {<< >>}
  ELSE UNION {{<< x >> \o rest : rest \in MenuFind_unsorted(S \ {x})} : x \in S}

\* Menu.find(...).sort({ orderIndex: 1 }): the store returns the documents in
\* ascending orderIndex; documents with equal orderIndex come in any order
RECURSIVE MenuFind(_)
MenuFind(S) ==
  IF S = {} THEN {<< >>}
  ELSE UNION {{<< x >> \o rest : rest \in MenuFind(S \ {x})} :
                x \in {y \in S : \A z \in S : menus[y].orderIndex <= menus[z].orderIndex}}

\* Array.prototype.sort((a, b) => a.orderIndex - b.orderIndex): stable
RECURSIVE SortByOrderIndex(_)
SortByOrderIndex(s) ==
  IF s = << >> THEN << >>
  ELSE LET x == s[Len(s)]
           front == SortByOrderIndex(SubSeq(s, 1, Len(s) - 1))
           keep == SelectSeq(front, LAMBDA y : menus[y].orderIndex <= menus[x].orderIndex)
           rest == SelectSeq(front, LAMBDA y : menus[y].orderIndex > menus[x].orderIndex)
       IN  keep \o << x >> \o rest

\* buildMenuTree(menus): rootMenus and, for every entry of menuMap, its children
buildMenuTree(fetched) ==
  LET menuMap == Range(fetched)
      \* second pass, in the order of the fetched list
      pushed(m) == SelectSeq(fetched, LAMBDA c : menus[c].parentId = m)
      rootMenus == SelectSeq(fetched, LAMBDA c : menus[c].parentId = NoParent)
      sortedRoots == SortByOrderIndex(rootMenus)
  IN  [roots |-> sortedRoots,
       children |-> [m \in menuMap |->
                       IF m \in Range(sortedRoots)
                       THEN SortByOrderIndex(pushed(m))
                       ELSE pushed(m)]]

EmptyForest == [roots |-> << >>, children |-> << >>]

\* getUserMenus(userId): one composition for every order the store may return
GetUserMenus(u, permFails, menuFails) ==
  /\ LET got == getUserPermissions(u, permFails)
         permissions == got.permissions
     IN  IF permissions = {}
         THEN menuResult' = [userId |-> u, logged |-> got.logged] @@ EmptyForest
         ELSE IF menuFails
         THEN menuResult' = [userId |-> u, logged |-> TRUE] @@ EmptyForest
         ELSE \E fetched \in MenuFind(MenuFilter(permissions)) :
                menuResult' = [userId |-> u, logged |-> FALSE] @@ buildMenuTree(fetched)
  /\ UNCHANGED storeVars

(* ------------------------------------------------------------------ *)
(* Middleware chain: authenticate, then requirePermission, then handler *)
(* ------------------------------------------------------------------ *)
\* no Authorization header, a bad signature or an expired token
NoToken == [userId |-> 0, kind |-> "none"]
TokenKinds == {"access", "refresh"}
\* req.user before authenticate attaches it
NoUser == [id |-> 0, roleId |-> NULL, role |-> NULL, status |-> NULL, deletedAt |-> NoDate]
IdleReq == [pc |-> "idle", token |-> NoToken, required |-> {}, user |-> NoUser]
DonePcs == {"handler", "r401", "r403", "r500"}

\* User.findById(decoded.userId).populate('roleId'): roleId is null when the
\* referenced role document does not exist
PopulatedUser(u) ==
  [id |-> u,
   roleId |-> IF RoleExists(users[u].roleId) THEN users[u].roleId ELSE NULL,
   role |-> users[u].role,
   status |-> users[u].status,
   deletedAt |-> users[u].deletedAt]

\* variant: the account status and the soft-delete marker are not looked at
authenticate_nostatus(token, dbFails) ==
  IF token = NoToken THEN [status |-> "r401", user |-> NoUser]
  ELSE IF dbFails THEN [status |-> "r500", user |-> NoUser]
  ELSE IF ~UserExists(token.userId) THEN [status |-> "r401", user |-> NoUser]
  ELSE [status |-> "next", user |-> PopulatedUser(token.userId)]

\* authenticate(req, res, next): the response status ("next" when it calls next())
\* and the req.user it attaches
authenticate(token, dbFails) ==
  IF token = NoToken THEN [status |-> "r401", user |-> NoUser]
  ELSE IF dbFails THEN [status |-> "r500", user |-> NoUser]
  ELSE IF ~UserExists(token.userId) THEN [status |-> "r401", user |-> NoUser]
  ELSE IF users[token.userId].status # "ACTIVE" THEN [status |-> "r401", user |-> NoUser]
  ELSE IF users[token.userId].deletedAt # NoDate THEN [status |-> "r401", user |-> NoUser]
  ELSE [status |-> "next", user |-> PopulatedUser(token.userId)]

\* POST /api/auth/refresh with body.refreshToken = token: the response status
refreshAccessToken(token, dbFails) ==
  IF token = NoToken THEN "r401"
  ELSE IF token.kind # "refresh" THEN "r401"
  ELSE IF dbFails THEN "r401"
  ELSE IF ~UserExists(token.userId) THEN "r401"
  ELSE IF users[token.userId].status # "ACTIVE" THEN "r401"
  ELSE IF users[token.userId].deletedAt # NoDate THEN "r401"
  ELSE "r200"

\* variant: every required code must be held (AND instead of OR)
requirePermission_every(user, permissionCodes, dbFails) ==
  IF user = NoUser THEN "r401"
  ELSE IF dbFails THEN "r500"
  ELSE IF user.roleId = NULL \/ ~RoleExists(user.roleId) THEN "r403"
  ELSE IF \A code \in permissionCodes : code \in RoleCodes(user.roleId) THEN "next"
  ELSE "r403"

\* variant: the ADMIN role is let through without looking at its codes
requirePermission_adminBypass(user, permissionCodes, dbFails) ==
  IF user = NoUser THEN "r401"
  ELSE IF dbFails THEN "r500"
  ELSE IF user.roleId = NULL \/ ~RoleExists(user.roleId) THEN "r403"
  ELSE IF roles[user.roleId].name = "ADMIN" THEN "next"
  ELSE IF \E code \in permissionCodes : code \in RoleCodes(user.roleId) THEN "next"
  ELSE "r403"

\* variant: the role is looked up by the name cached on the user document
requirePermission_byRoleName(user, permissionCodes, dbFails) ==
  IF user = NoUser THEN "r401"
  ELSE IF dbFails THEN "r500"
  ELSE IF FindRoleByName(user.role) = NULL THEN "r403"
  ELSE IF \E code \in permissionCodes : code \in RoleCodes(FindRoleByName(user.role))
  THEN "next"
  ELSE "r403"

\* requirePermission(...permissionCodes)(req, res, next)
requirePermission(user, permissionCodes, dbFails) ==
  IF user = NoUser THEN "r401"
  ELSE IF dbFails THEN "r500"
  ELSE IF user.roleId = NULL \/ ~RoleExists(user.roleId) THEN "r403"
  ELSE IF \E code \in permissionCodes : code \in RoleCodes(user.roleId) THEN "next"
  ELSE "r403"

\* a request arrives at a route; required = {} is a route with no requirePermission
\* in its chain (GET /api/notices, GET /api/users/roles)
StartRequest(q, token, required) ==
  /\ req[q].pc = "idle"
  /\ req' = [req EXCEPT ![q] = [IdleReq EXCEPT !.pc = "authenticate",
                                               !.token = token,
                                               !.required = required]]
  /\ UNCHANGED storeVars

\* variant: every route is wired through requirePermission, open ones with no code
AfterAuthenticate_alwaysGuard(required) == "requirePermission"

\* the middleware after authenticate in the route's chain: the handler itself
\* when the route declares no requirePermission
AfterAuthenticate(required) ==
  IF required = {} THEN "handler" ELSE "requirePermission"

Authenticate(q, dbFails) ==
  /\ req[q].pc = "authenticate"
  /\ LET a == authenticate(req[q].token, dbFails)
     IN  req' = [req EXCEPT ![q].user = a.user,
                            ![q].pc = IF a.status # "next" THEN a.status
                                      ELSE AfterAuthenticate(req[q].required)]
  /\ UNCHANGED storeVars

RequirePermission(q, dbFails) ==
  /\ req[q].pc = "requirePermission"
  /\ LET s == requirePermission(req[q].user, req[q].required, dbFails)
     IN  req' = [req EXCEPT ![q].pc = IF s = "next" THEN "handler" ELSE s]
  /\ UNCHANGED storeVars

\* the response is sent and the request is over
Respond(q) ==
  /\ req[q].pc \in DonePcs
  /\ req' = [req EXCEPT ![q] = IdleReq]
  /\ UNCHANGED storeVars

(* ------------------------------------------------------------------ *)
(* Initial store and the request specification                         *)
(* ------------------------------------------------------------------ *)
InitStore ==
  /\ users \in {<< >>, (1 :> SeedAdmin), (1 :> OrphanUser)}
  /\ userSeq = Cardinality(DOMAIN users)
  /\ roles = SeedRoles
  /\ tokens = {}
  /\ now = 1

NoResolved == [userId |-> 0, permissions |-> {}, threw |-> FALSE, logged |-> FALSE]
NoMenuResult == [userId |-> 0, logged |-> FALSE, roots |-> << >>, children |-> << >>]

\* seeded menu catalog (Add Citizen is re-parented under Citizens)
SeedMenus ==
  << [parentId |-> NoParent, orderIndex |-> 1, permissionCode |-> "VIEW_DASHBOARD"],
     [parentId |-> NoParent, orderIndex |-> 2, permissionCode |-> "VIEW_CITIZEN"],
     [parentId |-> 2, orderIndex |-> 3, permissionCode |-> "CREATE_CITIZEN"],
     [parentId |-> NoParent, orderIndex |-> 4, permissionCode |-> "VIEW_REPORTS"],
     [parentId |-> NoParent, orderIndex |-> 5, permissionCode |-> "MANAGE_USERS"] >>

\* an empty citizen registry and no service call in flight
InitLife ==
  /\ citizens = << >>
  /\ citizenSeq = 0
  /\ purgedIds = {}
  /\ logs = << >>
  /\ ops = [o \in OpIds |-> IdleOp]
  /\ listing = NoListing

Init ==
  /\ InitStore
  /\ req = [q \in ReqIds |-> IdleReq]
  /\ resolved = NoResolved
  /\ menus = SeedMenus
  /\ menuResult = NoMenuResult
  /\ InitLife

StoreNext ==
  \/ \E r \in RoleIds, st \in UserStatuses :
       userSeq < NumUsers /\ CreateUser("admin", r, st)
  \/ \E u \in UserIds, r \in RoleRefs \cup LegacyRoleIds \cup {NULL},
        n \in RoleNames \cup {NULL}, st \in UserStatuses \cup {NULL} :
        UpdateUser(u, r, n, st)
  \/ \E u \in UserIds, st \in UserStatuses : ChangeUserStatus(u, st)
  \/ \E u \in UserIds : DeleteUser(u)
  \/ \E u \in UserIds : RestoreUser(u)
  \/ \E u \in UserIds : DeleteUserPermanent(u)
  \/ \E r \in RoleIds, perms \in SUBSET PermIds : SetRolePermissions(r, perms)
  \/ \E u \in UserIds : Login(u)

Tokens == {NoToken} \cup {[userId |-> u, kind |-> k] : u \in tokens, k \in TokenKinds}

Next ==
  \/ StoreNext /\ UNCHANGED << req, resolved, menus, menuResult >> /\ UNCHANGED lifeVars
  \/ \E q \in ReqIds, t \in Tokens, c \in SUBSET Codes :
        StartRequest(q, t, c) /\ UNCHANGED << resolved, menus, menuResult >>
                              /\ UNCHANGED lifeVars
  \/ \E q \in ReqIds, f \in BOOLEAN :
        Authenticate(q, f) /\ UNCHANGED << resolved, menus, menuResult >>
                           /\ UNCHANGED lifeVars
  \/ \E q \in ReqIds, f \in BOOLEAN :
        RequirePermission(q, f) /\ UNCHANGED << resolved, menus, menuResult >>
                                /\ UNCHANGED lifeVars
  \/ \E q \in ReqIds : Respond(q) /\ UNCHANGED << resolved, menus, menuResult >>
                                   /\ UNCHANGED lifeVars

Spec == Init /\ [][Next]_vars

(* ------------------------------------------------------------------ *)
(* Permission resolution on its own                                     *)
(* ------------------------------------------------------------------ *)
NextResolve ==
  \/ StoreNext /\ UNCHANGED << req, resolved, menus, menuResult >> /\ UNCHANGED lifeVars
  \/ \E u \in UserIds, f \in BOOLEAN :
        GetUserPermissions(u, f) /\ UNCHANGED << req, menus, menuResult >>
                                 /\ UNCHANGED lifeVars

SpecResolve == Init /\ [][NextResolve]_vars

(* ------------------------------------------------------------------ *)
(* Access Guard and Permission Resolver: properties                     *)
(* ------------------------------------------------------------------ *)
\* the principal a request's bearer token names is inactive in the store
Inactive(u) ==
  UserExists(u) /\ (users[u].status # "ACTIVE" \/ users[u].deletedAt # NoDate)

\* request q leaves the middleware that is at position pc in this step
Leaves(q, pc) == req[q].pc = pc /\ req'[q].pc # pc

\* C1: a request authenticated while its principal is not ACTIVE or is
\* soft-deleted is denied (never passed on to requirePermission or the handler),
\* whatever the route requires and whatever the principal's role grants; and a
\* request is only ever passed on with a req.user that was ACTIVE and not deleted.
C1_InactiveDenied ==
  [][\A q \in ReqIds :
       /\ (Leaves(q, "authenticate") /\ Inactive(req[q].token.userId))
            => req'[q].pc \in {"r401", "r500"}
       /\ req'[q].pc \in {"requirePermission", "handler"}
            => (req'[q].user.status = "ACTIVE" /\ req'[q].user.deletedAt = NoDate)]_vars

\* a DISABLED principal whose role grants every code, holding a token issued
\* earlier, was answered 401 on a permission-guarded route
C1_Witness ==
  \E q \in ReqIds :
    /\ req[q].pc = "r401"
    /\ req[q].required # {}
    /\ req[q].token.userId \in tokens
    /\ UserExists(req[q].token.userId)
    /\ users[req[q].token.userId].status = "DISABLED"
    /\ RoleExists(users[req[q].token.userId].roleId)
    /\ RoleCodes(users[req[q].token.userId].roleId) = Codes

\* C2: a resolution that finds the principal and its role (and whose lookups do
\* not fail) returns exactly the codes of the permissions currently attached to
\* that role; the result depends on the principal only through its role.
C2_ResolveExact ==
  [][(/\ resolved' # resolved
      /\ ~resolved'.logged
      /\ UserExists(resolved'.userId)
      /\ RoleExists(users[resolved'.userId].roleId))
       => resolved'.permissions =
            {CodeList[p] : p \in roles[users[resolved'.userId].roleId].permissions}]_vars

\* a resolution made after the role's list was replaced returned the replaced list
C2_Witness ==
  /\ UserExists(resolved.userId)
  /\ RoleExists(users[resolved.userId].roleId)
  /\ roles[users[resolved.userId].roleId].permissions
       # SeedPermissions(roles[users[resolved.userId].roleId].name)
  /\ resolved.permissions # {}
  /\ resolved.permissions =
       {CodeList[p] : p \in roles[users[resolved.userId].roleId].permissions}

\* C3: resolution never throws, and returns the empty set when the principal
\* does not exist, its role cannot be resolved, or a lookup fails.
C3_FailClosed ==
  [][resolved' # resolved
       => /\ ~resolved'.threw
          /\ (\/ ~UserExists(resolved'.userId)
              \/ ~RoleExists(users[resolved'.userId].roleId)
              \/ resolved'.logged)
               => resolved'.permissions = {}]_vars

\* a principal whose role document is gone resolved to the empty set
C3_Witness ==
  /\ UserExists(resolved.userId)
  /\ ~RoleExists(users[resolved.userId].roleId)
  /\ resolved.permissions = {}
  /\ ~resolved.threw
  /\ ~resolved.logged

\* C4: requirePermission passes the request on exactly when the codes of the
\* role of req.user intersect the required codes; a missing role is answered
\* 403 and a failed role lookup 500.
C4_OrAcrossCodes ==
  [][\A q \in ReqIds :
       Leaves(q, "requirePermission")
         => LET r == req[q].user.roleId
                grants == /\ r # NULL
                          /\ RoleExists(r)
                          /\ RoleCodes(r) \cap req[q].required # {}
            IN  /\ req'[q].pc \in {"handler", "r403", "r500"}
                /\ req'[q].pc = "handler" => grants
                /\ req'[q].pc = "r403" => ~grants]_vars

\* a request requiring either of two codes was passed on for a role holding one
C4_Witness ==
  \E q \in ReqIds :
    /\ req[q].pc = "handler"
    /\ Cardinality(req[q].required) = 2
    /\ req[q].user.roleId # NULL
    /\ Cardinality(RoleCodes(req[q].user.roleId) \cap req[q].required) = 1

\* an ACTIVE principal of role r, as authenticate attaches it
PrincipalOf(r) ==
  [id |-> 1, roleId |-> r, role |-> roles[r].name, status |-> "ACTIVE", deletedAt |-> NoDate]

\* C5: the decision of requirePermission is the same for any two roles that carry
\* the same permission set, whatever their names, and the ADMIN role is denied
\* every required set none of whose codes it carries.
C5_NoAdminBypass ==
  /\ \A r1, r2 \in DOMAIN roles, c \in SUBSET Codes, f \in BOOLEAN :
       RoleCodes(r1) = RoleCodes(r2)
         => requirePermission(PrincipalOf(r1), c, f) = requirePermission(PrincipalOf(r2), c, f)
  /\ \A c \in (SUBSET Codes) \ {{}} :
       RoleCodes(RoleIdOf("ADMIN")) \cap c = {}
         => requirePermission(PrincipalOf(RoleIdOf("ADMIN")), c, FALSE) = "r403"

\* a principal of the ADMIN role was answered 403 for a code the role lacks
C5_Witness ==
  \E q \in ReqIds :
    /\ req[q].pc = "r403"
    /\ req[q].user.roleId = RoleIdOf("ADMIN")
    /\ req[q].user.role = "ADMIN"
    /\ RoleCodes(RoleIdOf("ADMIN")) \cap req[q].required = {}

\* C6: on a route with no permission requirement, a request is passed on to the
\* handler exactly when its token verifies and names an existing, ACTIVE,
\* non-deleted user (a failed user lookup is answered 500), whatever the role.
C6_OpenRoute ==
  [][\A q \in ReqIds :
       (Leaves(q, "authenticate") /\ req[q].required = {})
         => LET u == req[q].token.userId
                active == /\ req[q].token # NoToken
                          /\ UserExists(u)
                          /\ users[u].status = "ACTIVE"
                          /\ users[u].deletedAt = NoDate
            IN  /\ req'[q].pc \in {"handler", "r401", "r500"}
                /\ req'[q].pc = "handler" => active
                /\ req'[q].pc = "r401" => ~active]_vars

\* a principal whose role carries no permission reached the handler of an open route
C6_Witness ==
  \E q \in ReqIds :
    /\ req[q].pc = "handler"
    /\ req[q].required = {}
    /\ req[q].user.roleId # NULL
    /\ RoleCodes(req[q].user.roleId) = {}

(* ------------------------------------------------------------------ *)
(* Menu composition over every small catalog                            *)
(* ------------------------------------------------------------------ *)
\* acyclic catalogs; ids are opaque, so parents are numbered before children
Catalogs ==
  {c \in [MenuIds -> [parentId : {NoParent} \cup MenuIds,
                      orderIndex : 0..MaxOrder,
                      permissionCode : {NULL} \cup Codes]] :
     \A m \in MenuIds : c[m].parentId < m}

InitMenu ==
  /\ users = (1 :> SeedOfficer)
  /\ userSeq = 1
  /\ roles \in {[SeedRoles EXCEPT ![RoleIdOf("OFFICER")].permissions = perms] :
                  perms \in SUBSET PermIds}
  /\ tokens = {}
  /\ now = 1
  /\ req = [q \in ReqIds |-> IdleReq]
  /\ resolved = NoResolved
  /\ menus \in Catalogs
  /\ menuResult = NoMenuResult
  /\ InitLife

NextMenu ==
  \E u \in UserIds, pf \in BOOLEAN, mf \in BOOLEAN :
    GetUserMenus(u, pf, mf) /\ UNCHANGED << req, resolved, menus >> /\ UNCHANGED lifeVars

SpecMenu == InitMenu /\ [][NextMenu]_vars

(* ------------------------------------------------------------------ *)
(* Menu Composer: properties                                            *)
(* ------------------------------------------------------------------ *)
\* the permission set of principal u in the store
Granted(u) == getUserPermissions(u, FALSE).permissions

\* the nodes of the forest: the roots and everything below them
RECURSIVE Below(_, _)
Below(res, S) ==
  LET more == S \cup UNION {Range(res.children[n]) : n \in S}
  IN  IF more = S THEN S ELSE Below(res, more)
ForestNodes(res) == Below(res, Range(res.roots))

\* how many times menu m occurs in the forest
Occurrences(res, m) ==
  Cardinality({i \in DOMAIN res.roots : res.roots[i] = m})
  + Cardinality({ni \in UNION {{<< n, i >> : i \in DOMAIN res.children[n]} : n \in ForestNodes(res)} :
                   res.children[ni[1]][ni[2]] = m})

Ascending(s) ==
  \A i, j \in DOMAIN s : i < j => menus[s[i]].orderIndex <= menus[s[j]].orderIndex

\* the last composition ran to its end for an existing principal
Composed == menuResult.userId # 0 /\ ~menuResult.logged /\ UserExists(menuResult.userId)

\* C7: no node of the composed forest, and no entry of any children list, is a
\* menu whose permissionCode is set and is not among the principal's codes.
C7_OnlyGrantedMenus ==
  \A m \in Range(menuResult.roots)
           \cup UNION {Range(menuResult.children[n]) : n \in DOMAIN menuResult.children} :
    menus[m].permissionCode = NULL \/ menus[m].permissionCode \in Granted(menuResult.userId)

\* VIEW_CITIZEN without CREATE_CITIZEN: root "Citizens" is shown and its child
\* "Add Citizen" is not among its children
C7_Witness ==
  /\ Composed
  /\ Granted(menuResult.userId) = {"VIEW_CITIZEN"}
  /\ menus[1].permissionCode = "VIEW_CITIZEN"
  /\ menus[2].permissionCode = "CREATE_CITIZEN"
  /\ menus[2].parentId = 1
  /\ 1 \in Range(menuResult.roots)
  /\ 2 \notin Range(menuResult.children[1])
  /\ 2 \notin ForestNodes(menuResult)

\* C8 (as claimed, for a principal that holds some permission): every menu that
\* passes the filter occurs exactly once in the forest, as a root when its
\* parent did not pass the filter.
C8_FilteredMenusAppearOnce ==
  (Composed /\ Granted(menuResult.userId) # {})
    => \A m \in MenuFilter(Granted(menuResult.userId)) :
         /\ Occurrences(menuResult, m) = 1
         /\ menus[m].parentId \notin MenuFilter(Granted(menuResult.userId))
              => m \in Range(menuResult.roots)

\* C9 (as claimed, for a principal whose role carries no permission): every menu
\* whose permissionCode is null is in the composed forest.
C9_NullMenusAlwaysVisible ==
  (Composed /\ Granted(menuResult.userId) = {})
    => \A m \in DOMAIN menus :
         menus[m].permissionCode = NULL => m \in ForestNodes(menuResult)

\* C10: the roots are in ascending orderIndex and so is the children list of
\* every node of the forest, at every depth.
C10_SortedAtEveryDepth ==
  /\ Ascending(menuResult.roots)
  /\ \A n \in ForestNodes(menuResult) : Ascending(menuResult.children[n])

\* a node below the first level has two children of different orderIndex
C10_Witness ==
  \E n \in ForestNodes(menuResult) \ Range(menuResult.roots) :
    /\ Len(menuResult.children[n]) >= 2
    /\ menus[menuResult.children[n][1]].orderIndex
         < menus[menuResult.children[n][Len(menuResult.children[n])]].orderIndex

\* C11 (as claimed): two compositions for the same principal, over the same
\* catalog and the same role permissions, return the same roots in the same
\* order and the same children lists in the same order, also when sibling
\* menus share an orderIndex.
C11_Deterministic ==
  [][(Composed /\ Composed' /\ menuResult'.userId = menuResult.userId)
       => /\ menuResult'.roots = menuResult.roots
          /\ menuResult'.children = menuResult.children]_vars

(* ------------------------------------------------------------------ *)
(* Lifecycle specification: concurrent soft delete, restore and         *)
(* permanent delete of one user and of the citizens of one nationalId   *)
(* ------------------------------------------------------------------ *)
InitLifecycle ==
  /\ users = << >>
  /\ userSeq = 0
  /\ roles = SeedRoles
  /\ tokens = {}
  /\ now = 1
  /\ req = [q \in ReqIds |-> IdleReq]
  /\ resolved = NoResolved
  /\ menus = SeedMenus
  /\ menuResult = NoMenuResult
  /\ citizens \in {<< >>, (1 :> ActiveCitizen), (1 :> DeceasedCitizen)}
  /\ citizenSeq = Cardinality(DOMAIN citizens)
  /\ purgedIds = {}
  /\ logs = PastLogs(citizens, DOMAIN citizens)
  /\ ops = [o \in OpIds |-> IdleOp]
  /\ listing = NoListing

NextLifecycle ==
  \/ \E st \in UserStatuses :
       userSeq < NumUsers /\ CreateUser("officer1", RoleIdOf("VIEWER"), st)
         /\ UNCHANGED << req, resolved, menus, menuResult >> /\ UNCHANGED lifeVars
  \/ \E n \in NationalIds : CreateCitizen(n)
  \/ \E o \in OpIds, kind \in OpKinds, type \in EntityTypes :
       \E key \in Keys(type) : FindEntity(o, kind, type, key)
  \/ \E o \in OpIds : SaveEntity(o)
  \/ \E o \in OpIds : DeleteOne(o)
  \/ \E o \in OpIds : ReturnOp(o)
  \/ Tick

SpecLifecycle == InitLifecycle /\ [][NextLifecycle]_vars

(* ------------------------------------------------------------------ *)
(* Lifecycle Manager: properties                                        *)
(* ------------------------------------------------------------------ *)
\* page sizes a client asks for
PageLimits == 1..2

\* the _ids a client collects by reading every page of a listing
ActiveView(type, limit) ==
  UNION {Range(listActive(type, page, limit).data) :
           page \in 1..listActive(type, 1, limit).pages}
TrashView(type, limit) ==
  UNION {Range(listTrash(type, page, limit).data) :
           page \in 1..listTrash(type, 1, limit).pages}

\* C12: for users and for citizens, every existing row is in exactly one of the
\* active listing and the trash listing (active iff deletedAt is null), and the
\* two reported totals sum to the number of existing rows.
C12_ViewsPartition ==
  \A type \in EntityTypes, limit \in PageLimits :
    LET coll == Collection(type)
        active == ActiveView(type, limit)
        trash == TrashView(type, limit)
    IN  /\ active \cap trash = {}
        /\ active \cup trash = DOMAIN coll
        /\ \A id \in DOMAIN coll : id \in active <=> coll[id].deletedAt = NoDate
        /\ \A id \in DOMAIN coll : id \in trash <=> coll[id].deletedAt # NoDate
        /\ listActive(type, 1, limit).total + listTrash(type, 1, limit).total
             = Cardinality(DOMAIN coll)

\* an active user and a trashed citizen exist side by side
C12_Witness ==
  /\ \E u \in DOMAIN users : users[u].deletedAt = NoDate
  /\ \E c \in DOMAIN citizens : citizens[c].deletedAt # NoDate
  /\ ActiveView("Citizen", 1) = {}
  /\ TrashView("User", 1) = {}

\* call o writes deletedAt of its document in this step
WritesDeletedAt(o, kind) ==
  /\ ops[o].pc = "found"
  /\ ops'[o].pc = "ok"
  /\ ops[o].kind = kind
  /\ ops[o].dirty

\* the fields of a document other than those named in S
Without(doc, S) == [f \in DOMAIN doc \ S |-> doc[f]]

\* C13 (as claimed): a successful soft delete moves the row from the active to
\* the trash listing, a successful restore moves it back, and both leave every
\* field other than deletedAt as it was.
C13_RoundTripKeepsFields ==
  [][\A o \in OpIds :
       LET type == ops[o].type
           id == ops[o].id
       IN  /\ WritesDeletedAt(o, "delete")
                => /\ id \notin ActiveView(type, 1)' /\ id \in TrashView(type, 1)'
                   /\ Without(Collection(type)'[id], {"deletedAt"})
                        = Without(Collection(type)[id], {"deletedAt"})
           /\ WritesDeletedAt(o, "restore")
                => /\ id \in ActiveView(type, 1)' /\ id \notin TrashView(type, 1)'
                   /\ Without(Collection(type)'[id], {"deletedAt"})
                        = Without(Collection(type)[id], {"deletedAt"})]_vars

\* C13 (amended): as above, with every field other than deletedAt and the
\* updatedAt timestamp left as it was.
C13_RoundTripKeepsData ==
  [][\A o \in OpIds :
       LET type == ops[o].type
           id == ops[o].id
       IN  /\ WritesDeletedAt(o, "delete")
                => /\ id \notin ActiveView(type, 1)' /\ id \in TrashView(type, 1)'
                   /\ Without(Collection(type)'[id], {"deletedAt", "updatedAt"})
                        = Without(Collection(type)[id], {"deletedAt", "updatedAt"})
           /\ WritesDeletedAt(o, "restore")
                => /\ id \in ActiveView(type, 1)' /\ id \notin TrashView(type, 1)'
                   /\ Without(Collection(type)'[id], {"deletedAt", "updatedAt"})
                        = Without(Collection(type)[id], {"deletedAt", "updatedAt"})]_vars

\* a DECEASED citizen was soft-deleted and later restored: it is listed as
\* active again and is still DECEASED
C13_Witness ==
  \E o \in OpIds :
    /\ ops[o].pc = "ok"
    /\ ops[o].kind = "restore"
    /\ ops[o].type = "Citizen"
    /\ ops[o].dirty
    /\ ops[o].id \in DOMAIN citizens
    /\ citizens[ops[o].id].status = "DECEASED"
    /\ citizens[ops[o].id].deletedAt = NoDate
    /\ citizens[ops[o].id].updatedAt > 1
    /\ ops[o].id \in ActiveView("Citizen", 1)

\* call o starts in this step (its read is made)
Starts(o, kind) == ops[o].pc = "idle" /\ ops'[o].pc # "idle" /\ ops'[o].kind = kind

\* C14: a soft delete of a row that is already trashed, or of a key with no row,
\* throws 'not found' and writes nothing: no document changes (deletedAt keeps
\* its timestamp) and no StatusChangeLog row is created; a call that threw
\* 'not found' never writes afterwards.
C14_DeleteOfTrashedFails ==
  [][\A o \in OpIds :
       /\ Starts(o, "delete")
            => LET id == FindOne(ops'[o].type, ops'[o].key)
               IN  (id = 0 \/ Collection(ops'[o].type)[id].deletedAt # NoDate)
                     => /\ ops'[o].pc = "notfound"
                        /\ users' = users
                        /\ citizens' = citizens
                        /\ logs' = logs
       /\ ops[o].pc = "notfound" => ops'[o].pc \in {"notfound", "idle"}]_vars

\* a soft delete of a citizen trashed at an earlier time threw 'not found' and
\* the row still carries the earlier timestamp
C14_Witness ==
  \E o \in OpIds :
    /\ ops[o].pc = "notfound"
    /\ ops[o].kind = "delete"
    /\ ops[o].type = "Citizen"
    /\ FindOne("Citizen", ops[o].key) # 0
    /\ citizens[FindOne("Citizen", ops[o].key)].deletedAt # NoDate
    /\ citizens[FindOne("Citizen", ops[o].key)].deletedAt < now
    /\ logs = << >>

\* C15 (as claimed): every soft delete that succeeds makes the Active to Trashed
\* transition, so of two concurrent soft deletes of one row only one succeeds
\* and deletedAt is written once.
C15_OneSoftDeleteWins ==
  [][\A o \in OpIds :
       (ops[o].kind = "delete" /\ ops[o].pc = "found" /\ ops'[o].pc = "ok")
         => Collection(ops[o].type)[ops[o].id].deletedAt = NoDate]_vars

\* C16 (as claimed): a restore that reports success has read a Trashed row, and
\* a restore of a key with no row throws 'not found'.
C16_RestoreOnlyFromTrashed ==
  [][\A o \in OpIds :
       /\ (Starts(o, "restore") /\ FindOne(ops'[o].type, ops'[o].key) = 0)
            => ops'[o].pc = "notfound"
       /\ (ops[o].kind = "restore" /\ ops[o].pc = "found" /\ ops'[o].pc = "ok")
            => ops[o].dirty]_vars

\* C17 (as claimed): no step removes a row whose deletedAt is null.
C17_PurgeOnlyFromTrashed ==
  [][\A type \in EntityTypes :
       \A id \in DOMAIN Collection(type) :
         id \notin DOMAIN Collection(type)' => Collection(type)[id].deletedAt # NoDate]_vars

\* C18 (as claimed): once a row is permanently deleted no row with its key
\* exists again, and every later call and lookup on that key finds nothing.
C18_PurgedIsTerminal ==
  [][/\ \A u \in 1..userSeq : u \notin DOMAIN users => u \notin DOMAIN users'
     /\ \A n \in purgedIds :
          /\ FindOne("Citizen", n)' = 0
          /\ GetById("Citizen", n)' = 0
          /\ n \notin {citizens[c].nationalId : c \in ActiveView("Citizen", 1) \cup TrashView("Citizen", 1)}'
          /\ \A o \in OpIds :
               (ops[o].pc = "idle" /\ ops'[o].pc # "idle" /\ ops'[o].key = n
                  /\ ops'[o].type = "Citizen") => ops'[o].pc = "notfound"]_vars

(* ------------------------------------------------------------------ *)
(* Audit specification: concurrent updateCitizen calls on one citizen,  *)
(* with failing log inserts and failing saves                           *)
(* ------------------------------------------------------------------ *)
InitAudit ==
  /\ users = (1 :> SeedAdmin)
  /\ userSeq = 1
  /\ roles = SeedRoles
  /\ tokens = {}
  /\ now = 1
  /\ req = [q \in ReqIds |-> IdleReq]
  /\ resolved = NoResolved
  /\ menus = SeedMenus
  /\ menuResult = NoMenuResult
  /\ citizens \in {<< >>, (1 :> ActiveCitizen), (1 :> DeceasedCitizen),
                   (1 :> [ActiveCitizen EXCEPT !.deletedAt = 1])}
  /\ citizenSeq = Cardinality(DOMAIN citizens)
  /\ purgedIds = {}
  /\ logs = PastLogs(citizens, DOMAIN citizens)
  /\ ops = [o \in OpIds |-> IdleOp]
  /\ listing = NoListing

NextAudit ==
  \/ \E o \in OpIds, key \in NationalIds, status \in StatusInputs, userId \in ActorIds :
       FindForUpdate(o, key, status, userId)
  \/ \E o \in OpIds, fails \in BOOLEAN : CreateLog(o, fails)
  \/ \E o \in OpIds, fails \in BOOLEAN : SaveUpdate(o, fails)
  \/ \E o \in OpIds : ReturnOp(o)

SpecAudit == InitAudit /\ [][NextAudit]_vars

(* ------------------------------------------------------------------ *)
(* Status Audit Trail: properties                                       *)
(* ------------------------------------------------------------------ *)
\* updateCitizen call o returns normally in this step
Accepted(o) == ops[o].kind = "update" /\ ops[o].pc = "save" /\ ops'[o].pc = "ok"

\* C19: an updateCitizen call that is accepted has inserted exactly one
\* StatusChangeLog row when the status it asks for differs from the status it
\* read, and none when it is the same; whenever a row is inserted it is a single
\* row carrying the call's nationalId, the status read as oldStatus, the status
\* asked for as newStatus and the caller's id, the two statuses differ, and the
\* call has inserted no row before; when the call changes the stored status, the
\* status it replaces is the oldStatus of its row.
C19_OneRowPerStatusChange ==
  [][/\ \A o \in OpIds :
          Accepted(o)
            => /\ ops[o].logged <=> (ops[o].status # NULL /\ ops[o].status # ops[o].old)
               /\ logs' = logs
               /\ citizens'[ops[o].id].status # citizens[ops[o].id].status
                    => (ops[o].logged /\ citizens[ops[o].id].status = ops[o].old
                                      /\ citizens'[ops[o].id].status = ops[o].status)
     /\ logs' # logs
          => \E o \in OpIds :
               /\ logs' = Append(logs, [nationalId |-> ops[o].key,
                                        oldStatus |-> ops[o].old,
                                        newStatus |-> ops[o].status,
                                        changedBy |-> ops[o].userId])
               /\ ops[o].old # ops[o].status
               /\ ops[o].id # 0
               /\ citizens[ops[o].id].nationalId = ops[o].key
               /\ ~ops[o].logged
               /\ ops'[o].logged]_vars

\* caller 2 changed the citizen from ACTIVE to DECEASED: the call returned, the
\* store holds DECEASED and the log holds exactly the one row of that change
C19_Witness ==
  \E o \in OpIds :
    /\ ops[o].pc = "ok"
    /\ ops[o].kind = "update"
    /\ ops[o].old = "ACTIVE"
    /\ ops[o].status = "DECEASED"
    /\ ops[o].userId = 2
    /\ ops[o].logged
    /\ citizens[ops[o].id].status = "DECEASED"
    /\ logs = << [nationalId |-> ops[o].key, oldStatus |-> "ACTIVE",
                  newStatus |-> "DECEASED", changedBy |-> 2] >>

\* C20: every step that changes a citizen's stored status is the save of a call
\* that has inserted its row, and the log holds a row with that nationalId, the
\* replaced status, the new status and the caller's id; a failed log insert ends
\* the call with an error and without a write, and a call that ended with an
\* error never writes afterwards.
C20_NoChangeWithoutRow ==
  [][/\ \A c \in DOMAIN citizens :
          (c \in DOMAIN citizens' /\ citizens'[c].status # citizens[c].status)
            => \E o \in OpIds :
                 /\ Accepted(o)
                 /\ ops[o].id = c
                 /\ ops[o].logged
                 /\ \E i \in DOMAIN logs :
                      logs[i] = [nationalId |-> citizens[c].nationalId,
                                 oldStatus |-> citizens[c].status,
                                 newStatus |-> citizens'[c].status,
                                 changedBy |-> ops[o].userId]
     /\ \A o \in OpIds :
          /\ (ops[o].pc = "log" /\ ops'[o].pc # "log" /\ logs' = logs)
               => (ops'[o].pc = "error" /\ citizens' = citizens)
          /\ ops[o].pc = "error"
               => (ops'[o].pc \in {"error", "idle"}
                     /\ (ops'[o].pc = "idle" => citizens' = citizens))]_vars

\* a log insert failed: the call ended with an error, the citizen is still
\* ACTIVE and the log is empty
C20_Witness ==
  \E o \in OpIds :
    /\ ops[o].pc = "error"
    /\ ops[o].kind = "update"
    /\ ops[o].old = "ACTIVE"
    /\ ops[o].status = "DECEASED"
    /\ ~ops[o].logged
    /\ citizens[ops[o].id].status = "ACTIVE"
    /\ logs = << >>

\* no updateCitizen call is between its read and its return
Quiescent == \A o \in OpIds : ops[o].pc = "idle"

\* the rows of the log that carry nationalId n, in insertion order
RowsOf(n) == SelectSeq(logs, LAMBDA row : row.nationalId = n)

\* C21 (as claimed): whenever no call is in flight, the rows of each citizen
\* form the history of its stored status: the first row starts from ACTIVE,
\* each later row starts from the status the previous row ended in, and the last
\* row ends in the stored status (ACTIVE when the citizen has no row); this
\* also after concurrent status changes and after a save that failed behind
\* its log insert.
C21_RowsAreTheHistory ==
  Quiescent =>
    \A c \in DOMAIN citizens :
      LET rows == RowsOf(citizens[c].nationalId)
      IN  /\ \A i \in DOMAIN rows :
               rows[i].oldStatus = IF i = 1 THEN "ACTIVE" ELSE rows[i - 1].newStatus
          /\ citizens[c].status = IF rows = << >> THEN "ACTIVE"
                                                  ELSE rows[Len(rows)].newStatus

(* ------------------------------------------------------------------ *)
(* Token kinds                                                          *)
(* ------------------------------------------------------------------ *)
\* C30 (as claimed): a request whose Bearer token is a refresh token never gets
\* past authenticate (it is answered with an error status there), and the
\* refresh endpoint answers 401 to every access token.
C30_OnlyAccessTokenAuthenticates ==
  /\ \A q \in ReqIds :
       req[q].token.kind = "refresh"
         => /\ req[q].pc \in {"authenticate", "r401", "r500"}
            /\ req[q].user = NoUser
  /\ \A t \in Tokens, f \in BOOLEAN :
       t.kind = "access" => refreshAccessToken(t, f) = "r401"

(* ------------------------------------------------------------------ *)
(* User Manager: properties                                             *)
(* ------------------------------------------------------------------ *)
\* the role_id and roleName values of an updateUser body
RoleIdInputs == RoleRefs \cup LegacyRoleIds \cup {NULL}
RoleNameInputs == RoleNames \cup {NULL}

\* C25: a user whose role is ADMIN keeps role ADMIN and the roleId of the ADMIN
\* role in every step that leaves the user in the store, and every updateUser
\* call on it that names a role other than ADMIN (by _id, by legacy id or by
\* name) throws 'Cannot change role of an Admin user' instead of saving.
C25_AdminRoleIsFixed ==
  [][\A u \in DOMAIN users :
       users[u].role = "ADMIN"
         => /\ u \in DOMAIN users'
                 => /\ users'[u].role = "ADMIN"
                    /\ users'[u].roleId = RoleIdOf("ADMIN")
            /\ \A r \in RoleIdInputs, n \in RoleNameInputs, st \in UserStatuses \cup {NULL} :
                 LET role == UpdateUserRole(r, n)
                 IN  (/\ users[u].deletedAt = NoDate
                      /\ (r # NULL \/ n # NULL)
                      /\ role # NULL
                      /\ roles[role].name # "ADMIN")
                       => updateUser(u, r, n, st).error
                            = "Cannot change role of an Admin user"]_vars

\* an ADMIN user was updated (it is DISABLED now) and is still ADMIN; assigning
\* OFFICER by legacy id or VIEWER by name is refused, assigning ADMIN is not
C25_Witness ==
  \E u \in DOMAIN users :
    /\ users[u].role = "ADMIN"
    /\ users[u].roleId = RoleIdOf("ADMIN")
    /\ users[u].status = "DISABLED"
    /\ users[u].deletedAt = NoDate
    /\ updateUser(u, "2", NULL, NULL).error = "Cannot change role of an Admin user"
    /\ updateUser(u, NULL, "VIEWER", "ACTIVE").error = "Cannot change role of an Admin user"
    /\ updateUser(u, "1", NULL, "ACTIVE").error = NULL

(* ------------------------------------------------------------------ *)
(* Access Guard against Permission Resolver                             *)
(* ------------------------------------------------------------------ *)
\* user u is ACTIVE and not soft-deleted: authenticate attaches it to a request
ActivePrincipal(u) ==
  UserExists(u) /\ users[u].status = "ACTIVE" /\ users[u].deletedAt = NoDate

\* C26: in every state, for every ACTIVE, non-deleted user and every code,
\* requirePermission(code) passes a request of that user on exactly when the code
\* is in what getUserPermissions returns for the user (with and without a
\* failing lookup); and a request whose req.user is the user as stored is
\* passed on to the handler only if a required code is in the resolver's
\* answer, and answered 403 only if none is.
C26_GuardAgreesWithResolver ==
  [][/\ \A u \in DOMAIN users, c \in Codes, f \in BOOLEAN :
          ActivePrincipal(u)
            => (requirePermission(PopulatedUser(u), {c}, f) = "next"
                  <=> c \in getUserPermissions(u, f).permissions)
     /\ \A q \in ReqIds :
          LET u == req[q].user.id
          IN  (/\ Leaves(q, "requirePermission")
               /\ ActivePrincipal(u)
               /\ req[q].user = PopulatedUser(u))
                => LET codes == getUserPermissions(u, FALSE).permissions
                   IN  /\ req'[q].pc = "handler" => req[q].required \cap codes # {}
                       /\ req'[q].pc = "r403" => req[q].required \cap codes = {}]_vars

\* after the permission list of its role was replaced, a user was passed on to
\* the handler of a route requiring a code the role did not have when seeded,
\* and the resolver returns that code for the user
C26_Witness ==
  \E q \in ReqIds :
    LET u == req[q].user.id
    IN  /\ req[q].pc = "handler"
        /\ ActivePrincipal(u)
        /\ req[q].user = PopulatedUser(u)
        /\ req[q].user.roleId # NULL
        /\ req[q].required # {}
        /\ req[q].required \cap
              {CodeList[p] : p \in SeedPermissions(roles[req[q].user.roleId].name)} = {}
        /\ req[q].required \subseteq getUserPermissions(u, FALSE).permissions

(* ------------------------------------------------------------------ *)
(* Trail specification: updateCitizen calls running concurrently with   *)
(* soft delete, restore and permanent delete of the same citizen        *)
(* ------------------------------------------------------------------ *)
InitTrail ==
  /\ users = (1 :> SeedAdmin)
  /\ userSeq = 1
  /\ roles = SeedRoles
  /\ tokens = {}
  /\ now = 1
  /\ req = [q \in ReqIds |-> IdleReq]
  /\ resolved = NoResolved
  /\ menus = SeedMenus
  /\ menuResult = NoMenuResult
  /\ citizens \in {(1 :> ActiveCitizen), (1 :> DeceasedCitizen)}
  /\ citizenSeq = 1
  /\ purgedIds = {}
  /\ logs = PastLogs(citizens, DOMAIN citizens)
  /\ ops = [o \in OpIds |-> IdleOp]
  /\ listing = NoListing

NextTrail ==
  \/ \E o \in OpIds, kind \in OpKinds, key \in NationalIds :
       FindEntity(o, kind, "Citizen", key)
  \/ \E o \in OpIds : SaveEntity(o)
  \/ \E o \in OpIds : DeleteOne(o)
  \/ \E o \in OpIds, key \in NationalIds, status \in CitizenStatuses \cup {NULL} :
       FindForUpdate(o, key, status, 1)
  \/ \E o \in OpIds, fails \in BOOLEAN : CreateLog(o, fails)
  \/ \E o \in OpIds, fails \in BOOLEAN : SaveUpdate(o, fails)
  \/ \E o \in OpIds : ReturnOp(o)
  \/ Tick

SpecTrail == InitTrail /\ [][NextTrail]_vars

\* C22: every step keeps every existing StatusChangeLog row where it is and as
\* it is; the log only grows, whatever the step does to the citizen (status
\* change, update, soft delete, restore, permanent delete).
C22_AppendOnly ==
  [][/\ Len(logs') >= Len(logs)
     /\ \A i \in DOMAIN logs : logs'[i] = logs[i]]_vars

\* a citizen with a row in the log was permanently deleted: the citizen is gone
\* and the row is still there
C22_Witness ==
  \E o \in OpIds :
    /\ ops[o].pc = "ok"
    /\ ops[o].kind = "purge"
    /\ ops[o].type = "Citizen"
    /\ FindOne("Citizen", ops[o].key) = 0
    /\ \E i \in DOMAIN logs : logs[i].nationalId = ops[o].key

\* C27 (as claimed): no step changes a field other than deletedAt and updatedAt
\* of a citizen row that is trashed, no StatusChangeLog row is inserted for a
\* citizen that is trashed, and an updateCitizen call that reads a trashed
\* citizen throws 'not found'; also when the update overlaps a soft delete.
C27_NoChangeWhileTrashed ==
  [][/\ \A c \in DOMAIN citizens :
          (citizens[c].deletedAt # NoDate /\ c \in DOMAIN citizens')
            => Without(citizens'[c], {"deletedAt", "updatedAt"})
                 = Without(citizens[c], {"deletedAt", "updatedAt"})
     /\ logs' # logs
          => \A c \in DOMAIN citizens :
               citizens[c].nationalId = logs'[Len(logs')].nationalId
                 => citizens[c].deletedAt = NoDate
     /\ \A o \in OpIds :
          (Starts(o, "update") /\ FindOne("Citizen", ops'[o].key) # 0
             /\ citizens[FindOne("Citizen", ops'[o].key)].deletedAt # NoDate)
            => ops'[o].pc = "notfound"]_vars

(* ------------------------------------------------------------------ *)
(* Registration specification: concurrent createCitizen calls, with     *)
(* soft delete and permanent delete of the rows they insert             *)
(* ------------------------------------------------------------------ *)
InitCreate ==
  /\ users = (1 :> SeedAdmin)
  /\ userSeq = 1
  /\ roles = SeedRoles
  /\ tokens = {}
  /\ now = 1
  /\ req = [q \in ReqIds |-> IdleReq]
  /\ resolved = NoResolved
  /\ menus = SeedMenus
  /\ menuResult = NoMenuResult
  /\ InitLife

NextCreate ==
  \/ \E o \in OpIds, n \in NationalIds : GenerateId(o, n)
  \/ \E o \in OpIds : CheckExists(o)
  \/ \E o \in OpIds : InsertCitizen(o)
  \/ \E o \in OpIds, kind \in {"delete", "purge"}, key \in NationalIds :
       FindEntity(o, kind, "Citizen", key)
  \/ \E o \in OpIds : SaveEntity(o)
  \/ \E o \in OpIds : DeleteOne(o)
  \/ \E o \in OpIds : ReturnOp(o)
  \/ Tick

SpecCreate == InitCreate /\ [][NextCreate]_vars

\* C29: no two citizen rows, soft-deleted or not, carry the same nationalId,
\* however concurrent createCitizen calls interleave; a createCitizen call
\* returns normally only for a row that alone carries its nationalId.
C29_NationalIdUnique ==
  /\ \A c, d \in DOMAIN citizens :
       citizens[c].nationalId = citizens[d].nationalId => c = d
  /\ \A o, p \in OpIds :
       (/\ ops[o].kind = "create" /\ ops[o].pc = "ok"
        /\ ops[p].kind = "create" /\ ops[p].pc = "ok"
        /\ ops[o].key = ops[p].key
        /\ ops[o].id \in DOMAIN citizens
        /\ ops[p].id \in DOMAIN citizens)
         => o = p

\* two calls drew the same candidate and both passed the findOne check: one
\* inserted its row, the other was rejected by the unique index
C29_Witness ==
  \E o, p \in OpIds :
    /\ ops[o].kind = "create" /\ ops[o].pc = "ok"
    /\ ops[p].kind = "create" /\ ops[p].pc = "error" /\ ops[p].dirty
    /\ ops[o].key = ops[p].key
    /\ Cardinality({c \in DOMAIN citizens : citizens[c].nationalId = ops[o].key}) = 1

(* ------------------------------------------------------------------ *)
(* Accounts specification: createUser, soft delete, restore and         *)
(* permanent delete of users that may ask for the same username         *)
(* ------------------------------------------------------------------ *)
InitAccounts ==
  /\ users \in {<< >>, (1 :> SeedAdmin)}
  /\ userSeq = Cardinality(DOMAIN users)
  /\ roles = SeedRoles
  /\ tokens = {}
  /\ now = 1
  /\ req = [q \in ReqIds |-> IdleReq]
  /\ resolved = NoResolved
  /\ menus = SeedMenus
  /\ menuResult = NoMenuResult
  /\ InitLife

NextAccounts ==
  \/ \E name \in Usernames, r \in RoleIds, st \in UserStatuses :
       /\ userSeq < NumAccounts
       /\ CreateUser(name, r, st)
       /\ UNCHANGED << req, resolved, menus, menuResult >> /\ UNCHANGED lifeVars
  \/ \E u \in AccountIds :
       DeleteUser(u) /\ UNCHANGED << req, resolved, menus, menuResult >>
                     /\ UNCHANGED lifeVars
  \/ \E u \in AccountIds :
       RestoreUser(u) /\ UNCHANGED << req, resolved, menus, menuResult >>
                      /\ UNCHANGED lifeVars
  \/ \E u \in AccountIds :
       DeleteUserPermanent(u) /\ UNCHANGED << req, resolved, menus, menuResult >>
                              /\ UNCHANGED lifeVars
  \/ Tick

SpecAccounts == InitAccounts /\ [][NextAccounts]_vars

\* C28: no two users that are not soft-deleted have the same username, after
\* every sequence of createUser, deleteUser, restoreUser and deleteUserPermanent.
C28_UsernameUniqueAmongActive ==
  \A u, v \in DOMAIN users :
    (/\ users[u].username = users[v].username
     /\ users[u].deletedAt = NoDate
     /\ users[v].deletedAt = NoDate)
      => u = v

\* a user was soft-deleted and no other user has its username: the lookup of
\* createUser finds no user of that name, the unique index still refuses it;
\* a second user of another name was created meanwhile
C28_Witness ==
  \E u, v \in DOMAIN users :
    /\ users[u].deletedAt # NoDate
    /\ ~UsernameTaken(users[u].username)
    /\ ~UsernameIndex(users[u].username)
    /\ users[v].username # users[u].username
    /\ users[v].deletedAt = NoDate

(* ------------------------------------------------------------------ *)
(* Routes specification: requests of a seeded VIEWER, OFFICER or ADMIN  *)
(* user on the routes of the application                                *)
(* ------------------------------------------------------------------ *)
\* the routes that create or change a User, a Citizen or a Notice, each with
\* the codes of its requirePermission
MutatingRoutes ==
  { [route |-> "POST /api/users", required |-> {"MANAGE_USERS"}],
    [route |-> "PUT /api/users/:id", required |-> {"MANAGE_USERS"}],
    [route |-> "DELETE /api/users/:id", required |-> {"MANAGE_USERS"}],
    [route |-> "POST /api/users/:id/status", required |-> {"MANAGE_USERS"}],
    [route |-> "POST /api/users/:id/reset-password", required |-> {"MANAGE_USERS"}],
    [route |-> "POST /api/users/trash/:id/restore", required |-> {"MANAGE_USERS"}],
    [route |-> "DELETE /api/users/trash/:id", required |-> {"MANAGE_USERS"}],
    [route |-> "POST /api/citizens", required |-> {"CREATE_CITIZEN"}],
    [route |-> "PUT /api/citizens/:nationalId", required |-> {"UPDATE_CITIZEN"}],
    [route |-> "POST /api/citizens/:nationalId/status", required |-> {"UPDATE_CITIZEN"}],
    [route |-> "DELETE /api/citizens/:nationalId", required |-> {"DELETE_CITIZEN"}],
    [route |-> "POST /api/citizens/trash/:nationalId/restore", required |-> {"DELETE_CITIZEN"}],
    [route |-> "DELETE /api/citizens/trash/:nationalId", required |-> {"DELETE_CITIZEN"}],
    [route |-> "POST /api/notices", required |-> {"MANAGE_NOTICES"}],
    [route |-> "DELETE /api/notices/:id", required |-> {"MANAGE_NOTICES"}] }

\* the routes that only read
ViewRoutes ==
  { [route |-> "GET /api/citizens", required |-> {"VIEW_CITIZEN"}],
    [route |-> "GET /api/users", required |-> {"MANAGE_USERS"}],
    [route |-> "GET /api/users/roles", required |-> {}],
    [route |-> "GET /api/notices", required |-> {}],
    [route |-> "GET /api/reports", required |-> {"VIEW_REPORTS"}],
    [route |-> "GET /api/dashboard/stats", required |-> {"VIEW_DASHBOARD"}],
    [route |-> "GET /api/activities/recent", required |-> {"VIEW_ACTIVITIES"}] }

InitRoutes ==
  /\ users \in {(1 :> ViewerUser), (1 :> SeedOfficer), (1 :> SeedAdmin)}
  /\ userSeq = 1
  /\ roles = SeederRoles
  /\ tokens = {1}
  /\ now = 1
  /\ req = [q \in ReqIds |-> IdleReq]
  /\ resolved = NoResolved
  /\ menus = SeedMenus
  /\ menuResult = NoMenuResult
  /\ InitLife

NextRoutes ==
  \/ \E q \in ReqIds, t \in Tokens, r \in MutatingRoutes \cup ViewRoutes :
        StartRequest(q, t, r.required) /\ UNCHANGED << resolved, menus, menuResult >>
                                       /\ UNCHANGED lifeVars
  \/ \E q \in ReqIds, f \in BOOLEAN :
        Authenticate(q, f) /\ UNCHANGED << resolved, menus, menuResult >>
                           /\ UNCHANGED lifeVars
  \/ \E q \in ReqIds, f \in BOOLEAN :
        RequirePermission(q, f) /\ UNCHANGED << resolved, menus, menuResult >>
                                /\ UNCHANGED lifeVars
  \/ \E q \in ReqIds : Respond(q) /\ UNCHANGED << resolved, menus, menuResult >>
                                   /\ UNCHANGED lifeVars

SpecRoutes == InitRoutes /\ [][NextRoutes]_vars

\* C24: with the seeded roles, a request of a user of the VIEWER role on a route
\* that creates or changes a User, a Citizen or a Notice never reaches the
\* route's handler, and requirePermission answers it 403.
C24_ViewerIsViewOnly ==
  \A q \in ReqIds :
    (/\ req[q].user # NoUser
     /\ req[q].user.roleId = RoleIdOf("VIEWER")
     /\ \E r \in MutatingRoutes : r.required = req[q].required)
      => /\ req[q].pc # "handler"
         /\ requirePermission(req[q].user, req[q].required, FALSE) = "r403"

\* a VIEWER user was answered 403 on a route guarded by DELETE_CITIZEN
C24_Witness ==
  \E q \in ReqIds :
    /\ req[q].pc = "r403"
    /\ req[q].user.roleId = RoleIdOf("VIEWER")
    /\ req[q].user.role = "VIEWER"
    /\ req[q].required = {"DELETE_CITIZEN"}

(* ------------------------------------------------------------------ *)
(* Listing specification: listing requests with every kind of page and  *)
(* limit parameter, over a store of users and citizens                  *)
(* ------------------------------------------------------------------ *)
InitListing ==
  /\ users \in {<< >>, (1 :> SeedAdmin)}
  /\ userSeq = Cardinality(DOMAIN users)
  /\ roles = SeedRoles
  /\ tokens = {}
  /\ now = 1
  /\ req = [q \in ReqIds |-> IdleReq]
  /\ resolved = NoResolved
  /\ menus = SeedMenus
  /\ menuResult = NoMenuResult
  /\ InitLife

NextListing ==
  \/ \E type \in EntityTypes, trash \in BOOLEAN, pageStr \in PageInputs,
        limitStr \in LimitInputs : ListRequest(type, trash, pageStr, limitStr)
  \/ \E n \in NationalIds : CreateCitizen(n)
  \/ \E u \in UserIds :
       DeleteUser(u) /\ UNCHANGED << req, resolved, menus, menuResult >>
                     /\ UNCHANGED lifeVars
  \/ \E u \in UserIds :
       RestoreUser(u) /\ UNCHANGED << req, resolved, menus, menuResult >>
                      /\ UNCHANGED lifeVars

SpecListing == InitListing /\ [][NextListing]_vars

\* C23 (as claimed): every listing query sent to the store has a page of at
\* least 1, a limit between 1 and 100 and a skip that is not negative, and its
\* response carries at most limit items and the total count.
C23_PageBounds ==
  listing.status # "none"
    => /\ listing.page >= 1
       /\ listing.limit >= 1
       /\ listing.limit <= 100
       /\ listing.skip >= 0
       /\ listing.status = "r200"
       /\ listing.items <= listing.limit
       /\ listing.items <= listing.total

====
